---- MODULE Spec2Model ----
(***************************************************************************)
(* Model of the ledger simulator: the recurrence generators of dates.py,   *)
(* the k-way merge OrderedStream and the Buffer of acct/util.py, and the   *)
(* Ledger.simulate / Ledger.process loop of transaction.py.                *)
(*                                                                         *)
(* Encoding.  A datetime.date is its day ordinal counted from              *)
(* 2024-01-01 = 1 (a Monday); a timedelta is a number of days; None is     *)
(* NoDate.  An account name is a number that keeps the order of the        *)
(* strings ("" = 0 < "checking" = 1 < "savings" = 2).  A Transaction is    *)
(* the tuple <<amount, debit, credit>> (every modelled transaction has     *)
(* the same description, so it never decides a comparison) and an Entry    *)
(* is <<date>> \o transaction, which Python's tuple comparison orders      *)
(* exactly like the nested namedtuples.  A plain number n streamed         *)
(* through an OrderedStream without a key is the 1-tuple <<n>>.            *)
(***************************************************************************)
EXTENDS Integers, Sequences, FiniteSets, TLC

VARIABLES
    pc,          \* position of the consumer / of simulate()
    allow_late,  \* OrderedStream.allow_late
    keyed,       \* TRUE iff OrderedStream was given a key (ledger_key)
    streams,     \* OrderedStream.streams, in dict insertion order
    holes,       \* OrderedStream._holes
    has_min,     \* hasattr(self, "_min")
    os_min,      \* OrderedStream._min
    sel,         \* idx held by generate() while suspended at its yield
    emitted,     \* values handed out so far by generate() / simulate()
    accounts,    \* Ledger.accounts
    t,           \* Ledger.t
    alerts,      \* Ledger.alerts, a Buffer: its attributes by name
    sources,     \* Ledger.sources
    actors,      \* Ledger.actors
    alerters,    \* Ledger.alerters
    start,       \* simulate(start, ...)
    end,         \* simulate(..., end)
    entry,       \* the entry Ledger.process is working on
    k,           \* loop position inside Ledger.process
    wrapper,     \* a recurrence made by interval/weekly/monthly/yearly/once
    it,          \* the date generator wrapper(start) returned
    dates,       \* the dates next(it) has returned so far
    hist         \* observations of the run, read only by the properties

vars == <<pc, allow_late, keyed, streams, holes, has_min, os_min, sel,
          emitted, accounts, t, alerts, sources, actors, alerters,
          start, end, entry, k, wrapper, it, dates, hist>>

NoDate == 0

\* the element of a one-element set: The({F(r) : r \in {e}}) is F(e) with
\* e evaluated once, a local variable assigned once and read many times
The(S) == CHOOSE v \in S : TRUE

-----------------------------------------------------------------------------
(* datetime.date arithmetic *)

BaseYear == 2024

IsLeap(y) == (y % 4 = 0) /\ ((y % 100 # 0) \/ (y % 400 = 0))

DaysInYear(y) == IF IsLeap(y) THEN 366 ELSE 365

DaysInMonth(y, m) ==
    IF m = 2 THEN (IF IsLeap(y) THEN 29 ELSE 28)
    ELSE IF m \in {4, 6, 9, 11} THEN 30 ELSE 31

\* date(y, m, d) raises ValueError unless this holds
ValidDate(y, m, d) ==
    /\ y >= BaseYear
    /\ m \in 1..12
    /\ d >= 1
    /\ d <= DaysInMonth(y, m)

RECURSIVE DaysBeforeYear(_)
DaysBeforeYear(y) ==
    IF y <= BaseYear THEN 0 ELSE DaysBeforeYear(y - 1) + DaysInYear(y - 1)

RECURSIVE DaysBeforeMonth(_, _)
DaysBeforeMonth(y, m) ==
    IF m <= 1 THEN 0 ELSE DaysBeforeMonth(y, m - 1) + DaysInMonth(y, m - 1)

\* date(y, m, d) as an ordinal
MkDate(y, m, d) == DaysBeforeYear(y) + DaysBeforeMonth(y, m) + d

RECURSIVE YearFrom(_, _)
YearFrom(y, n) == IF n <= DaysInYear(y) THEN y ELSE YearFrom(y + 1, n - DaysInYear(y))

RECURSIVE MonthFrom(_, _, _)
MonthFrom(y, m, n) ==
    IF n <= DaysInMonth(y, m) THEN m ELSE MonthFrom(y, m + 1, n - DaysInMonth(y, m))

\* the day of the year, 1..366
DayOfYear(y, n) == n - DaysBeforeYear(y)

MonthIn(y, n) == MonthFrom(y, 1, DayOfYear(y, n))

DayIn(y, m, n) == DayOfYear(y, n) - DaysBeforeMonth(y, m)

\* d.year, d.month, d.day
YearOf(n) == YearFrom(BaseYear, n)

MonthOf(n) == MonthIn(YearOf(n), n)

DayOf(n) == DayIn(YearOf(n), MonthIn(YearOf(n), n), n)

\* date.weekday(): Monday = 0
Weekday(n) == (n - 1) % 7

-----------------------------------------------------------------------------
(* dates.py *)

_get_next_year_month(year, month) ==
    IF month + 1 > 12 THEN <<year + 1, 1>> ELSE <<year, month + 1>>

\* the "while True: try: return date(...)" loop shared by
\* _get_next_month_with_day and _advance_month (day is known to be in 1..31)
RECURSIVE FirstMonthWithDay(_, _, _)
FirstMonthWithDay(year, month, day) ==
    IF ValidDate(year, month, day) THEN MkDate(year, month, day)
    ELSE LET ym == _get_next_year_month(year, month)
         IN  FirstMonthWithDay(ym[1], ym[2], day)

\* _get_next_month_with_day on d = date(year, month, day)
NextMonthWithDay(year, month, day, day_of_month) ==
    IF day_of_month < day
    THEN FirstMonthWithDay(_get_next_year_month(year, month)[1],
                           _get_next_year_month(year, month)[2], day_of_month)
    ELSE FirstMonthWithDay(year, month, day_of_month)

\* [st |-> "ok", val |-> date], "raise" (the assert) or "hang" (no month ever
\* has a day < 1, so the loop never leaves)
_get_next_month_with_day(d, day_of_month) ==
    IF ~(day_of_month <= 31) THEN [st |-> "raise", val |-> NoDate]
    ELSE IF day_of_month < 1 THEN [st |-> "hang", val |-> NoDate]
    ELSE [st |-> "ok",
          val |-> The({NextMonthWithDay(y, m, dd, day_of_month) :
                          y \in {YearOf(d)}, m \in {MonthOf(d)}, dd \in {DayOf(d)}})]

\* _advance_month on d = date(year, month, day)
AdvanceMonth(year, month, day) ==
    FirstMonthWithDay(_get_next_year_month(year, month)[1],
                      _get_next_year_month(year, month)[2], day)

\* an _advance_month that clamps the day to the length of the next month
_advance_month_clamp(d) ==
    The({MkDate(ym[1], ym[2],
                IF DayOf(d) <= DaysInMonth(ym[1], ym[2]) THEN DayOf(d)
                ELSE DaysInMonth(ym[1], ym[2])) :
            ym \in {_get_next_year_month(YearOf(d), MonthOf(d))}})

_advance_month(d) ==
    The({AdvanceMonth(y, m, dd) : y \in {YearOf(d)}, m \in {MonthOf(d)}, dd \in {DayOf(d)}})

_earliest_day_of_week_after(d, day_of_week) ==
    d + ((day_of_week - Weekday(d)) % 7)

(* A recurrence rule is what create_recurrence closes over:                *)
(*   kind  "once" (a = d), "interval" (a = delta, b = initial or NoDate),  *)
(*         "weekly" (a = day_of_week), "monthly" (a = day_of_month),       *)
(*         "yearly" (a = month, b = day), or "custom": a caller-written    *)
(*         factory that returns iter(items) whatever the start             *)
(*   wbegin, wend  the begin= / end= keywords, NoDate when absent          *)
Rule(kind, a, b, wbegin, wend, items) ==
    [kind |-> kind, a |-> a, b |-> b, wbegin |-> wbegin, wend |-> wend,
     items |-> items]

(* A generator object: the rule it runs, the start it was bound to, its    *)
(* local variable (initial / cur / d), whether its body has begun, and     *)
(* the transaction generate_entries attaches.  kind "iter" is iter(items)  *)
(* over ready-made values.                                                 *)
Gen(kind, a, b, wbegin, wend, items, st, cur, fresh, txn) ==
    [kind |-> kind, a |-> a, b |-> b, wbegin |-> wbegin, wend |-> wend,
     items |-> items, start |-> st, cur |-> cur, fresh |-> fresh, txn |-> txn]

Res(st, val, g) == [st |-> st, val |-> val, gen |-> g]

\* no rule, no generator
NoRule == Rule("none", 0, 0, NoDate, NoDate, <<>>)

NoGen == Gen("none", 0, 0, NoDate, NoDate, <<>>, NoDate, NoDate, TRUE, <<>>)

\* the "while initial < start: initial += delta" loop, delta > 0
RECURSIVE AdvanceTo(_, _, _)
AdvanceTo(initial, st, delta) ==
    IF initial < st THEN AdvanceTo(initial + delta, st, delta) ELSE initial

\* the generator g yields d: its local variable now holds d
Yield(g, d) == Res("ok", d, [g EXCEPT !.fresh = FALSE, !.cur = d])

\* an ending that stops at end itself
EndingOf_exclusive(g, r) ==
    IF g.wend # NoDate /\ r.st = "ok" /\ r.val >= g.wend
    THEN Res("stop", NoDate, r.gen)
    ELSE r

\* a recur_once that wants d after start
recur_once_strict(g) ==
    IF g.fresh /\ g.a > g.start
    THEN Yield(g, g.a)
    ELSE Res("stop", NoDate, g)

\* a recur_by_delta whose step is one day too long
recur_by_delta_drift(g) ==
    IF g.fresh
    THEN IF g.b # NoDate
         THEN IF g.b < g.start /\ g.a <= 0
              THEN Res("hang", NoDate, g)
              ELSE Yield(g, AdvanceTo(g.b, g.start, g.a))
         ELSE Yield(g, g.start)
    ELSE Yield(g, g.cur + g.a + 1)

\* next() on recur_by_delta(start, delta, initial)
recur_by_delta(g) ==
    IF g.fresh
    THEN IF g.b # NoDate
         THEN IF g.b < g.start /\ g.a <= 0
              THEN Res("hang", NoDate, g)
              ELSE Yield(g, AdvanceTo(g.b, g.start, g.a))
         ELSE Yield(g, g.start)
    ELSE Yield(g, g.cur + g.a)

\* the first next() on recur_monthly, r being what
\* _get_next_month_with_day(start, day_of_month) came to
MonthlyFirst(g, r) ==
    IF r.st = "ok" THEN Yield(g, r.val) ELSE Res(r.st, NoDate, g)

\* next() on recur_monthly(start, day_of_month)
recur_monthly(g) ==
    IF g.fresh
    THEN IF ~(g.a <= 31) THEN Res("raise", NoDate, g)
         ELSE The({MonthlyFirst(g, r) : r \in {_get_next_month_with_day(g.start, g.a)}})
    ELSE Yield(g, _advance_month(g.cur))

\* next() on recur_once(start, d)
recur_once(g) ==
    IF g.fresh /\ g.a >= g.start
    THEN Yield(g, g.a)
    ELSE Res("stop", NoDate, g)

\* the first next() on recur_yearly, y being start.year
YearlyFirst(g, y) ==
    IF ~ValidDate(y, g.a, g.b) THEN Res("raise", NoDate, g)
    ELSE IF MkDate(y, g.a, g.b) < g.start
    THEN IF ~ValidDate(y + 1, g.a, g.b) THEN Res("raise", NoDate, g)
         ELSE Yield(g, MkDate(y + 1, g.a, g.b))
    ELSE Yield(g, MkDate(y, g.a, g.b))

\* next() on recur_yearly(start, month, day); after the first date,
\* "d = date(d.year, month, day)"
recur_yearly(g) ==
    IF g.fresh THEN The({YearlyFirst(g, y) : y \in {YearOf(g.start)}})
    ELSE Yield(g, MkDate(YearOf(g.cur), g.a, g.b))

\* next() on the generator the rule's function returned
RuleNext(g) ==
    CASE g.kind = "once"    -> recur_once(g)
      [] g.kind = "delta"   -> recur_by_delta(g)
      [] g.kind = "monthly" -> recur_monthly(g)
      [] g.kind = "yearly"  -> recur_yearly(g)
      [] OTHER              ->
            IF g.items = <<>> THEN Res("stop", NoDate, g)
            ELSE Res("ok", Head(g.items), [g EXCEPT !.items = Tail(g.items)])

\* ending's loop body on r, what next(it) came to
EndingOf(g, r) ==
    IF g.wend # NoDate /\ r.st = "ok" /\ r.val > g.wend
    THEN Res("stop", NoDate, r.gen)
    ELSE r

\* next() on ending(it, end); without end= the iterator itself
ending(g) == The({EndingOf(g, r) : r \in {RuleNext(g)}})

\* next() on beginning(it, begin); without begin= the iterator itself.
\* A generator that repeats a date before begin without changing state
\* is never left by the for loop.
RECURSIVE beginning(_)

\* beginning's loop body on r, what next(it) came to
BeginningOf(g, r) ==
    IF g.wbegin # NoDate /\ r.st = "ok" /\ ~(r.val >= g.wbegin)
    THEN IF r.gen = g THEN Res("hang", NoDate, g) ELSE beginning(r.gen)
    ELSE r

beginning(g) == The({BeginningOf(g, r) : r \in {ending(g)}})

\* generate_entries' loop body on r, what next(recurrence) came to
EntryOf(g, r) ==
    IF r.st = "ok" THEN Res("ok", <<r.val>> \o g.txn, r.gen) ELSE r

\* next() on generate_entries(recurrence, transaction), or on iter(items)
generate_entries(g) ==
    IF g.kind = "iter" THEN RuleNext(g)
    ELSE The({EntryOf(g, r) : r \in {beginning(g)}})

\* wrapper(start) of create_recurrence, bound to a transaction by
\* generate_entries: the generator, or "raise" when recur_weekly's eager
\* assert fails
create_recurrence(rule, st, txn) ==
    IF rule.kind = "weekly"
    THEN IF ~(0 <= rule.a /\ rule.a < 7) THEN Res("raise", NoDate, rule)
         ELSE Res("ok", NoDate,
                  Gen("delta", 7, _earliest_day_of_week_after(st, rule.a),
                      rule.wbegin, rule.wend, <<>>, st, NoDate, TRUE, txn))
    ELSE Res("ok", NoDate,
             Gen(IF rule.kind = "interval" THEN "delta" ELSE rule.kind,
                 rule.a, rule.b, rule.wbegin, rule.wend, rule.items,
                 st, NoDate, TRUE, txn))

-----------------------------------------------------------------------------
(* acct/util.py: UniBufferedStream and OrderedStream *)

\* Python's < on tuples of numbers
RECURSIVE PyLT(_, _)
PyLT(x, y) ==
    IF x = <<>> THEN y # <<>>
    ELSE IF y = <<>> THEN FALSE
    ELSE IF Head(x) # Head(y) THEN Head(x) < Head(y)
    ELSE PyLT(Tail(x), Tail(y))

PyGT(x, y) == PyLT(y, x)

\* ledger_key(entry) == entry.date
ledger_key(e) == e[1]

\* self._key applied to a stream's buffer, as set_key installs it
KeyLT(x, y) == IF keyed THEN ledger_key(x) < ledger_key(y) ELSE PyLT(x, y)

\* UniBufferedStream(it): the first fetch.  "ok" with the buffered stream,
\* "stop" for an empty one, or the failure of the iterator
UniBufferedStream(src) == generate_entries(src)

Max(S) == CHOOSE x \in S : \A y \in S : y <= x

Indices(strs) == {strs[i].idx : i \in 1..Len(strs)}

\* the late test of add_source: hasattr(self, "_min") and self._min > buf
IsLate(val) == has_min /\ PyGT(os_min, val)

\* dict assignment self.streams[idx] = stream: a present key keeps its
\* place, a new key goes last
DictSet(strs, idx, s) ==
    IF idx \in Indices(strs)
    THEN [i \in 1..Len(strs) |-> IF strs[i].idx = idx THEN s ELSE strs[i]]
    ELSE Append(strs, s)

\* an add_source that puts the source in the slot generate() is holding
Admit_over_emitting(strs, hls, r, h) ==
    LET idx == IF has_min /\ sel \in Indices(strs) THEN sel
               ELSE IF hls # {} THEN h
               ELSE IF strs = <<>> THEN 0 ELSE Max(Indices(strs)) + 1
    IN  [st |-> "ok",
         streams |-> DictSet(strs, idx, [idx |-> idx, gen |-> r.gen, buf |-> r.val]),
         holes |-> hls \ {idx}]

\* an add_source that never takes a slot id from the free pool
Admit_fresh(strs, hls, r, h) ==
    LET idx == IF strs = <<>> THEN 0 ELSE Max(Indices(strs)) + 1
    IN  [st |-> "ok",
         streams |-> DictSet(strs, idx, [idx |-> idx, gen |-> r.gen, buf |-> r.val]),
         holes |-> hls \ {idx}]

\* the slot assignment of add_source: "if self._holes: ... self.streams[idx] = stream"
Admit(strs, hls, r, h) ==
    LET idx == IF hls # {} THEN h
               ELSE IF strs = <<>> THEN 0 ELSE Max(Indices(strs)) + 1
    IN  [st |-> "ok",
         streams |-> DictSet(strs, idx, [idx |-> idx, gen |-> r.gen, buf |-> r.val]),
         holes |-> hls \ {idx}]

\* an add_source that never applies the late test
AddBuffered_admit_late(strs, hls, r, h) ==
    IF r.st \in {"raise", "hang"}
    THEN [st |-> r.st, streams |-> strs, holes |-> hls]
    ELSE IF r.st = "stop"
    THEN [st |-> "ok", streams |-> strs, holes |-> hls]
    ELSE Admit(strs, hls, r, h)

\* an add_source that drops a late source whatever allow_late says
AddBuffered_drop_late(strs, hls, r, h) ==
    IF r.st \in {"raise", "hang"}
    THEN [st |-> r.st, streams |-> strs, holes |-> hls]
    ELSE IF r.st = "stop" \/ IsLate(r.val)
    THEN [st |-> "ok", streams |-> strs, holes |-> hls]
    ELSE Admit(strs, hls, r, h)

\* add_source after "stream = UniBufferedStream(source)", r being what
\* the first fetch came to
AddBuffered(strs, hls, r, h) ==
    IF r.st \in {"raise", "hang"}
    THEN [st |-> r.st, streams |-> strs, holes |-> hls]
    ELSE IF r.st = "stop"
    THEN [st |-> "ok", streams |-> strs, holes |-> hls]
    ELSE IF IsLate(r.val) /\ ~allow_late
    THEN [st |-> "ok", streams |-> strs, holes |-> hls]
    ELSE Admit(strs, hls, r, h)

\* OrderedStream.add_source(source) on the table (strs, hls); h is the
\* element set.pop() returns when the pool is not empty
add_source(strs, hls, src, h) ==
    The({AddBuffered(strs, hls, r, h) : r \in {UniBufferedStream(src)}})

\* the loop of OrderedStream.__init__ over sources (no _min yet, no holes)
RECURSIVE InitSources(_, _)

\* the rest of the loop, r being what add_source made of the first source
InitRest(r, srcs) == IF r.st # "ok" THEN r ELSE InitSources(r.streams, srcs)

InitSources(strs, srcs) ==
    IF srcs = <<>> THEN [st |-> "ok", streams |-> strs, holes |-> {}]
    ELSE The({InitRest(r, Tail(srcs)) : r \in {add_source(strs, {}, Head(srcs), 0)}})

\* a selection that takes the first slot instead of the minimum
MinPos_first(strs) == 1

\* min(self.streams.items(), key=self._key): the position of the first
\* item, in dict order, that no item is below
MinPos(strs) ==
    CHOOSE i \in 1..Len(strs) :
        /\ \A j \in 1..Len(strs) : ~KeyLT(strs[j].buf, strs[i].buf)
        /\ \A j \in 1..(i - 1) : KeyLT(strs[i].buf, strs[j].buf)

PosOf(strs, idx) == CHOOSE i \in 1..Len(strs) : strs[i].idx = idx

Remove(strs, p) == [i \in 1..(Len(strs) - 1) |-> IF i < p THEN strs[i] ELSE strs[i + 1]]

\* generate(), from the loop test to the yield
generate_select ==
    /\ streams # <<>>
    /\ sel' = streams[MinPos(streams)].idx
    /\ os_min' = streams[MinPos(streams)].buf
    /\ has_min' = TRUE
    /\ UNCHANGED <<streams, holes>>

\* generate(), from the yield back to the loop test: stream.fetch() and
\* the release of an exhausted slot; res is "ok", "raise" or "hang"
generate_advance(res) ==
    \E p \in {PosOf(streams, sel)} :
    \E r \in {generate_entries(streams[p].gen)} :
        /\ res = (IF r.st = "stop" THEN "ok" ELSE r.st)
        /\ IF r.st = "ok"
           THEN /\ streams' = [streams EXCEPT ![p] = [idx |-> sel, gen |-> r.gen, buf |-> r.val]]
                /\ holes' = holes
           ELSE IF r.st = "stop"
           THEN /\ streams' = Remove(streams, p)
                /\ holes' = holes \cup {sel}
           ELSE UNCHANGED <<streams, holes>>
        /\ UNCHANGED <<has_min, os_min, sel>>

\* iter(items) over ready-made values
Iter(items) == Gen("iter", 0, 0, NoDate, NoDate, items, NoDate, NoDate, TRUE, <<>>)

-----------------------------------------------------------------------------
(* An OrderedStream used on its own, as in its doctest: a consumer pulls   *)
(* from generate() and may call add_source while generate() is suspended.  *)

MaxVal == 3
MaxLen == 2
MaxSources == 2
MaxAdds == 1

RECURSIVE SortedSeqs(_)
SortedSeqs(n) ==
    IF n = 0 THEN {<<>>}
    ELSE SortedSeqs(n - 1) \cup
         {Append(s, <<v>>) : s \in {q \in SortedSeqs(n - 1) : Len(q) = n - 1}, v \in 1..MaxVal}

IsSorted(s) == \A i \in 1..(Len(s) - 1) : ~PyLT(s[i + 1], s[i])

Lists == {s \in SortedSeqs(MaxLen) : IsSorted(s)}

SeqsUpTo(S, n) == UNION {[1..m -> S] : m \in 0..n}

IterAll(ls) == [i \in 1..Len(ls) |-> Iter(ls[i])]

LedgerIdle ==
    /\ accounts = <<>> /\ t = NoDate /\ alerts = <<>>
    /\ actors = <<>> /\ alerters = <<>> /\ start = NoDate /\ end = NoDate
    /\ entry = <<>> /\ k = 0

RuleVars == <<wrapper, it, dates>>

\* no recurrence rule is being iterated on its own
RuleIdle == wrapper = NoRule /\ it = NoGen /\ dates = <<>>

OSInit ==
    /\ allow_late \in BOOLEAN
    /\ keyed = FALSE
    /\ sources \in SeqsUpTo(Lists, MaxSources)
    /\ has_min = FALSE /\ os_min = <<>> /\ sel = -1
    /\ streams = InitSources(<<>>, IterAll(sources)).streams
    /\ holes = {}
    /\ pc = "ready"
    /\ emitted = <<>>
    /\ hist = [adds |-> <<>>, used |-> Indices(streams), maxlive |-> Len(streams)]
    /\ LedgerIdle
    /\ RuleIdle

LedgerVars == <<accounts, t, alerts, sources, actors, alerters, start, end, entry, k>>

\* the slot a call of add_source has filled, -1 if it filled none
NewSlot(old, new) ==
    IF Indices(new) \subseteq Indices(old) THEN -1
    ELSE The(Indices(new) \ Indices(old))

\* next(x) reaches the yield, or the end of generate()
OSSelect ==
    /\ pc \in {"ready", "loop"}
    /\ IF streams = <<>>
       THEN /\ pc' = "done"
            /\ UNCHANGED <<streams, holes, has_min, os_min, sel, emitted>>
       ELSE /\ generate_select
            /\ emitted' = Append(emitted, os_min')
            /\ pc' = "yielded"
    /\ UNCHANGED <<allow_late, keyed, hist>>
    /\ UNCHANGED <<LedgerVars, RuleVars>>

\* the following next(x) resumes generate() after its yield
OSAdvance ==
    /\ pc = "yielded"
    /\ generate_advance("ok")
    /\ pc' = "loop"
    /\ UNCHANGED <<allow_late, keyed, emitted, hist>>
    /\ UNCHANGED <<LedgerVars, RuleVars>>

\* os.add_source(iter(items)) by the consumer, generate() being suspended
OSAddSource(items, h) ==
    /\ pc \in {"ready", "yielded"}
    /\ Len(hist.adds) < MaxAdds
    /\ \E r \in {add_source(streams, holes, Iter(items), h)} :
           /\ streams' = r.streams
           /\ holes' = r.holes
           /\ hist' = [hist EXCEPT !.adds = Append(@,
                          [items |-> items,
                           late |-> items # <<>> /\ emitted # <<>>
                                   /\ PyLT(Head(items), emitted[Len(emitted)]),
                           pos |-> Len(emitted),
                           slot |-> NewSlot(streams, r.streams)]),
                                   !.used = @ \cup Indices(r.streams),
                                   !.maxlive = Max({@, Len(r.streams)})]
    /\ UNCHANGED <<pc, allow_late, keyed, has_min, os_min, sel, emitted>>
    /\ UNCHANGED <<LedgerVars, RuleVars>>

OSNext ==
    \/ OSSelect
    \/ OSAdvance
    \/ \E items \in Lists, h \in holes \cup {-1} :
          (h \in holes \/ holes = {}) /\ OSAddSource(items, h)

OSSpec == OSInit /\ [][OSNext]_vars

\* the consumer keeps calling next(x)
OSFair == OSSpec /\ WF_vars(OSSelect \/ OSAdvance)

-----------------------------------------------------------------------------
(* acct/util.py: Buffer *)

\* Buffer(): __init__ sets the attribute _data, and no other
Buffer == [a \in {"_data"} |-> <<>>]

\* Buffer.add(item): self.data.append(item).  Reading an attribute the
\* object does not have raises AttributeError
Buffer_add(b, item) ==
    IF "data" \in DOMAIN b
    THEN [st |-> "ok", buf |-> [b EXCEPT !["data"] = Append(@, item)]]
    ELSE [st |-> "raise", buf |-> b]

-----------------------------------------------------------------------------
(* transaction.py: Ledger *)

Accts == 0..2
Checking == 1
Savings == 2

Amount(e) == e[2]
Debit(e) == e[3]
Credit(e) == e[4]

\* a process that books the debit side only
process_balances_debit_only(accts, e) ==
    [accts EXCEPT ![Debit(e)] = @ + Amount(e)]

\* Ledger.process, the two balance updates
process_balances(accts, e) ==
    LET d == [accts EXCEPT ![Debit(e)] = @ + Amount(e)]
    IN  [d EXCEPT ![Credit(e)] = @ - Amount(e)]

\* a simulate that never looks at end
PastEnd_never(e) == FALSE

\* Ledger.simulate: "if end and entry.date > end: break"
PastEnd(e) == end # NoDate /\ ledger_key(e) > end

PayTxn == <<1000, Checking, 0>>
XferTxn == <<100, Savings, Checking>>
NilTxn == <<0, Checking, Savings>>

\* the paycheck source of the end-to-end scenario
PayRule == Rule("interval", 14, 5, NoDate, NoDate, <<>>)

Once(d) == Rule("once", d, 0, NoDate, NoDate, <<>>)

(* Actors.  "transfer" is the scenario's actor: after an entry that debits *)
(* checking and leaves it positive, a one-time transfer of a tenth of the  *)
(* entry to savings three days later.  "any" may return nothing or any of  *)
(* a few sources placed around the entry's date.                           *)
TransferActor(accts, e) ==
    IF Debit(e) = Checking /\ accts[Checking] > 0
    THEN {[rule |-> Once(ledger_key(e) + 3),
           txn |-> <<Amount(e) \div 10, Savings, Checking>>]}
    ELSE {}

AnyActor(e) ==
    LET d == ledger_key(e)
    IN  {[rule |-> r, txn |-> x] :
            r \in {Once(d), Once(d + 3),
                   Rule("custom", 0, 0, NoDate, NoDate, <<d - 1, d + 2>>),
                   Rule("interval", 7, NoDate, NoDate, NoDate, <<>>)},
            x \in {PayTxn, XferTxn}}

MaxInject == 1
MaxEntries == 8
MaxBal == 6000
MaxLive == 4

SourceSet ==
    {[rule |-> PayRule, txn |-> PayTxn],
     [rule |-> Rule("weekly", 4, 0, NoDate, NoDate, <<>>), txn |-> XferTxn],
     [rule |-> Rule("monthly", 31, 0, NoDate, NoDate, <<>>), txn |-> PayTxn],
     [rule |-> Rule("yearly", 1, 10, NoDate, NoDate, <<>>), txn |-> PayTxn],
     [rule |-> Rule("yearly", 2, 1, NoDate, 40, <<>>), txn |-> NilTxn],
     [rule |-> Once(8), txn |-> XferTxn],
     [rule |-> Rule("interval", 7, NoDate, 10, 30, <<>>), txn |-> NilTxn],
     [rule |-> Rule("custom", 0, 0, NoDate, NoDate, <<3, 3, 9>>), txn |-> XferTxn]}

MaxLedgerSources == 2

LedgerInit ==
    /\ sources \in SeqsUpTo(SourceSet, MaxLedgerSources)
    /\ actors \in {<<>>, <<"transfer">>, <<"any">>, <<"any", "transfer">>}
    /\ alerters \in {<<>>, <<"any">>, <<"any", "any">>}
    /\ accounts \in {[a \in Accts |-> 0], [a \in Accts |-> IF a = Savings THEN 500 ELSE 0]}
    /\ start = 1
    /\ end \in {20, 47}
    /\ t = NoDate
    /\ alerts = Buffer
    /\ allow_late = FALSE
    /\ keyed = TRUE
    /\ streams = <<>> /\ holes = {}
    /\ has_min = FALSE /\ os_min = <<>> /\ sel = -1
    /\ pc = "new"
    /\ emitted = <<>>
    /\ entry = <<>>
    /\ k = 0
    /\ hist = [initial |-> accounts, external |-> FALSE, returned |-> <<>>, inj |-> <<>>,
               ran |-> <<>>, raised |-> FALSE]
    /\ RuleIdle

Config == <<allow_late, keyed, sources, actors, alerters, start, end>>

\* recurrence(start) for every registered source, in order; "raise" if one
\* of the calls fails
RECURSIVE BindSources(_, _)

BindJoin(r, rest) ==
    IF r.st # "ok" \/ rest.st # "ok" THEN [st |-> "raise", gens |-> <<>>]
    ELSE [st |-> "ok", gens |-> <<r.gen>> \o rest.gens]

BindSources(srcs, st) ==
    IF srcs = <<>> THEN [st |-> "ok", gens |-> <<>>]
    ELSE The({BindJoin(r, rest) :
                 r \in {create_recurrence(Head(srcs).rule, st, Head(srcs).txn)},
                 rest \in {BindSources(Tail(srcs), st)}})

Failed(st) == IF st = "hang" THEN "hang" ELSE "error"

\* a process() that stops its actor loop after the first actor
After_one_actor(stage, i) ==
    IF stage = "alerters" /\ i <= Len(alerters) THEN <<"alerters", i>>
    ELSE IF stage = "alerters" THEN
         (IF 1 <= Len(actors) THEN <<"actors", 1>> ELSE <<"advance", 0>>)
    ELSE IF i <= Len(actors) /\ i <= 1 THEN <<"actors", i>> ELSE <<"advance", 0>>

\* where Ledger.process goes on after position (stage, i) of its two loops
After(stage, i) ==
    IF stage = "alerters" /\ i <= Len(alerters) THEN <<"alerters", i>>
    ELSE IF stage = "alerters" THEN
         (IF 1 <= Len(actors) THEN <<"actors", 1>> ELSE <<"advance", 0>>)
    ELSE IF i <= Len(actors) THEN <<"actors", i>> ELSE <<"advance", 0>>

\* simulate(), from the first next() to the loop over os.generate()
LStart ==
    /\ pc = "new"
    /\ \E b \in {BindSources(sources, start)} :
          IF b.st # "ok"
          THEN pc' = "error" /\ UNCHANGED <<streams, holes>>
          ELSE \E r \in {InitSources(<<>>, b.gens)} :
                  /\ pc' = (IF r.st = "ok" THEN "loop" ELSE Failed(r.st))
                  /\ streams' = r.streams
                  /\ holes' = r.holes
    /\ UNCHANGED <<has_min, os_min, sel, emitted, accounts, t, alerts, entry, k, hist>>
    /\ UNCHANGED <<Config, RuleVars>>

\* one turn of "for entry in os.generate()": the stream ends, or the entry
\* is past end, or process() books it and yields it
LSelect ==
    /\ pc = "loop"
    /\ IF streams = <<>>
       THEN /\ pc' = "done"
            /\ UNCHANGED <<streams, holes, has_min, os_min, sel, emitted,
                           accounts, t, entry, hist>>
       ELSE /\ generate_select
            /\ IF PastEnd(os_min')
               THEN /\ pc' = "done"
                    /\ UNCHANGED <<emitted, accounts, t, entry, hist>>
               ELSE IF \E a \in Accts : process_balances(accounts, os_min')[a] \notin (-MaxBal)..MaxBal
               THEN /\ pc' = "capped"
                    /\ UNCHANGED <<emitted, accounts, t, entry, hist>>
               ELSE /\ t' = ledger_key(os_min')
                    /\ accounts' = process_balances(accounts, os_min')
                    /\ entry' = os_min'
                    /\ emitted' = (IF Len(emitted) < MaxEntries
                                   THEN Append(emitted, os_min') ELSE emitted)
                    /\ hist' = [hist EXCEPT !.external =
                                   @ \/ Debit(os_min') = 0 \/ Credit(os_min') = 0,
                                             !.ran = <<>>]
                    /\ pc' = "yielded"
    /\ UNCHANGED <<alerts, k>>
    /\ UNCHANGED <<Config, RuleVars>>

\* the consumer asks for the next entry: process() resumes after its yield
LResume ==
    /\ pc = "yielded"
    /\ pc' = After("alerters", 1)[1]
    /\ k' = After("alerters", 1)[2]
    /\ UNCHANGED <<streams, holes, has_min, os_min, sel, emitted, accounts, t,
                   alerts, entry, hist>>
    /\ UNCHANGED <<Config, RuleVars>>

\* the call of a registered alerter or actor, as the run observes it
Ran(who) == [who |-> who, i |-> k, seen |-> accounts]

\* one alerter of the loop: it returns an event (ev) or nothing
LAlerter(ev) ==
    /\ pc = "alerters"
    /\ IF ev
       THEN \E r \in {Buffer_add(alerts, <<t, entry>>)} :
                /\ alerts' = r.buf
                /\ hist' = [hist EXCEPT !.returned = Append(@, <<t, entry>>),
                                        !.ran = Append(@, Ran("alerter"))]
                /\ IF r.st = "ok"
                   THEN pc' = After("alerters", k + 1)[1] /\ k' = After("alerters", k + 1)[2]
                   ELSE pc' = "error" /\ k' = k
       ELSE /\ pc' = After("alerters", k + 1)[1]
            /\ k' = After("alerters", k + 1)[2]
            /\ hist' = [hist EXCEPT !.ran = Append(@, Ran("alerter"))]
            /\ alerts' = alerts
    /\ UNCHANGED <<streams, holes, has_min, os_min, sel, emitted, accounts, t, entry>>
    /\ UNCHANGED <<Config, RuleVars>>

\* a raise that gets lost: the loop goes on to the next actor
LActorRaise_swallowed ==
    /\ pc = "actors"
    /\ actors[k] = "any"
    /\ pc' = After("actors", k + 1)[1]
    /\ k' = After("actors", k + 1)[2]
    /\ hist' = [hist EXCEPT !.ran = Append(@, Ran("actor")), !.raised = TRUE]
    /\ UNCHANGED <<streams, holes, has_min, os_min, sel, emitted, accounts, t,
                   alerts, entry>>
    /\ UNCHANGED <<Config, RuleVars>>

\* one alerter of the loop raises: nothing in process() or simulate()
\* catches it
LAlerterRaise ==
    /\ pc = "alerters"
    /\ pc' = "error"
    /\ hist' = [hist EXCEPT !.ran = Append(@, Ran("alerter")), !.raised = TRUE]
    /\ UNCHANGED <<streams, holes, has_min, os_min, sel, emitted, accounts, t,
                   alerts, entry, k>>
    /\ UNCHANGED <<Config, RuleVars>>

\* one actor of the loop raises
LActorRaise ==
    /\ pc = "actors"
    /\ actors[k] = "any"
    /\ pc' = "error"
    /\ hist' = [hist EXCEPT !.ran = Append(@, Ran("actor")), !.raised = TRUE]
    /\ UNCHANGED <<streams, holes, has_min, os_min, sel, emitted, accounts, t,
                   alerts, entry, k>>
    /\ UNCHANGED <<Config, RuleVars>>

ActorResult(kind) ==
    IF kind = "transfer" THEN TransferActor(accounts, entry)
    ELSE IF Len(hist.inj) < MaxInject THEN AnyActor(entry) ELSE {}

\* one actor of the loop returns nothing
LActorNone ==
    /\ pc = "actors"
    /\ actors[k] = "any" \/ ActorResult(actors[k]) = {}
    /\ pc' = After("actors", k + 1)[1]
    /\ k' = After("actors", k + 1)[2]
    /\ hist' = [hist EXCEPT !.ran = Append(@, Ran("actor"))]
    /\ UNCHANGED <<streams, holes, has_min, os_min, sel, emitted, accounts, t,
                   alerts, entry>>
    /\ UNCHANGED <<Config, RuleVars>>

\* one actor of the loop returns g = (recurrence, transaction):
\* os.add_source(generate_entries(recurrence(self.t), transaction))
LActorInject(g, h) ==
    /\ pc = "actors"
    /\ g \in ActorResult(actors[k])
    /\ \E b \in {create_recurrence(g.rule, t, g.txn)} :
       \E first \in {IF b.st = "ok" THEN generate_entries(b.gen) ELSE b} :
       \E r \in {AddBuffered(streams, holes, first, h)} :
           /\ hist' = [hist EXCEPT !.inj = Append(@,
                          [first |-> IF first.st = "ok" THEN first.val ELSE <<>>,
                           at |-> entry,
                           bound |-> IF b.st = "ok" THEN b.gen.start ELSE NoDate]),
                                   !.ran = Append(@, Ran("actor"))]
           /\ IF b.st # "ok"
              THEN pc' = "error" /\ k' = k /\ UNCHANGED <<streams, holes>>
              ELSE /\ streams' = r.streams
                   /\ holes' = r.holes
                   /\ IF r.st # "ok"
                      THEN pc' = Failed(r.st) /\ k' = k
                      ELSE IF Len(r.streams) > MaxLive
                      THEN pc' = "capped" /\ k' = k
                      ELSE pc' = After("actors", k + 1)[1] /\ k' = After("actors", k + 1)[2]
    /\ UNCHANGED <<has_min, os_min, sel, emitted, accounts, t, alerts, entry>>
    /\ UNCHANGED <<Config, RuleVars>>

\* process() has returned: os.generate() resumes after its yield
LAdvance ==
    /\ pc = "advance"
    /\ \E res \in {"ok", "raise", "hang"} :
          /\ generate_advance(res)
          /\ pc' = (IF res = "ok" THEN "loop" ELSE Failed(res))
    /\ UNCHANGED <<emitted, accounts, t, alerts, entry, k, hist>>
    /\ UNCHANGED <<Config, RuleVars>>

LedgerNext ==
    \/ LStart
    \/ LSelect
    \/ LResume
    \/ \E ev \in BOOLEAN : LAlerter(ev)
    \/ LAlerterRaise
    \/ LActorNone
    \/ LActorRaise
    \/ /\ pc = "actors"
       /\ \E g \in ActorResult(actors[k]), h \in holes \cup {-1} :
             (h \in holes \/ holes = {}) /\ LActorInject(g, h)
    \/ LAdvance

LedgerSpec == LedgerInit /\ [][LedgerNext]_vars

\* a Ledger of built-in rules only, with no actor
BuiltInOnly == \A i \in 1..Len(sources) : sources[i].rule.kind # "custom"

DrainInit == LedgerInit /\ actors = <<>> /\ BuiltInOnly

DrainNext ==
    \/ LStart
    \/ LSelect
    \/ LResume
    \/ \E ev \in BOOLEAN : LAlerter(ev)
    \/ LAlerterRaise
    \/ LAdvance

\* the consumer drains simulate()
DrainFair == DrainInit /\ [][DrainNext]_vars /\ WF_vars(DrainNext)

\* the consumer drains simulate()
LedgerFair == LedgerSpec /\ WF_vars(LedgerNext)

-----------------------------------------------------------------------------
(* A recurrence used on its own, as in the doctests of dates.py: the       *)
(* caller makes it with interval / weekly / monthly / yearly / once, binds *)
(* it to a start date and calls next() on what it returned.                *)

MaxStart == 400
MaxDates == 4

Windowed(r, b, e) == [r EXCEPT !.wbegin = b, !.wend = e]

BaseRules ==
    {Rule("monthly", d, 0, NoDate, NoDate, <<>>) : d \in 0..32}
    \cup {Rule("yearly", m, d, NoDate, NoDate, <<>>) :
             m \in {1, 2, 12, 13}, d \in {0, 1, 28, 29, 31, 32}}
    \cup {Rule("interval", dl, i, NoDate, NoDate, <<>>) :
             dl \in {7, 14, 30}, i \in {NoDate, 5, 40}}
    \cup {Rule("weekly", w, 0, NoDate, NoDate, <<>>) : w \in {0, 4, 6, 7}}
    \cup {Once(d) : d \in {1, 8, 60, 367}}
    \cup {Rule("custom", 0, 0, NoDate, NoDate, <<3, 12, 5, 9>>)}

WindowedRules ==
    {Windowed(r, b, e) :
        r \in {Rule("interval", 7, NoDate, NoDate, NoDate, <<>>),
               Rule("interval", 14, 5, NoDate, NoDate, <<>>),
               Rule("monthly", 31, 0, NoDate, NoDate, <<>>),
               Rule("yearly", 1, 1, NoDate, NoDate, <<>>),
               Rule("weekly", 4, 0, NoDate, NoDate, <<>>),
               Once(8),
               Rule("custom", 0, 0, NoDate, NoDate, <<3, 12, 5, 9>>)},
        b \in {NoDate, 5, 19}, e \in {NoDate, 9, 33}}

RuleSet == BaseRules \cup WindowedRules

\* no OrderedStream and no Ledger is running
StreamIdle ==
    /\ allow_late = FALSE /\ keyed = FALSE /\ streams = <<>> /\ holes = {}
    /\ has_min = FALSE /\ os_min = <<>> /\ sel = -1 /\ emitted = <<>>
    /\ sources = <<>> /\ accounts = <<>> /\ t = NoDate /\ alerts = <<>>
    /\ actors = <<>> /\ alerters = <<>> /\ end = NoDate
    /\ entry = <<>> /\ k = 0 /\ hist = <<>>

RuleInit ==
    /\ pc = "args"
    /\ start = NoDate
    /\ RuleIdle
    /\ StreamIdle

StreamVars == <<allow_late, keyed, streams, holes, has_min, os_min, sel, emitted,
                sources, accounts, t, alerts, actors, alerters, end, entry, k, hist>>

\* the constructing call, monthly(31) say: create_recurrence keeps the
\* arguments in a closure and returns it
RConstruct(r) ==
    /\ pc = "args"
    /\ wrapper' = r
    /\ pc' = "made"
    /\ UNCHANGED <<start, it, dates>>
    /\ UNCHANGED StreamVars

\* wrapper(start)
RBind(st) ==
    /\ pc = "made"
    /\ start' = st
    /\ \E b \in {create_recurrence(wrapper, st, <<>>)} :
          IF b.st = "ok"
          THEN it' = b.gen /\ pc' = "bound"
          ELSE it' = it /\ pc' = "raised"
    /\ UNCHANGED <<wrapper, dates>>
    /\ UNCHANGED StreamVars

\* next(it)
RNext ==
    /\ pc = "bound"
    /\ Len(dates) < MaxDates
    /\ \E r \in {beginning(it)} :
          /\ it' = r.gen
          /\ dates' = (IF r.st = "ok" THEN Append(dates, r.val) ELSE dates)
          /\ pc' = (CASE r.st = "ok"    -> "bound"
                      [] r.st = "stop"  -> "stopped"
                      [] r.st = "raise" -> "raised"
                      [] OTHER          -> "hung")
    /\ UNCHANGED <<wrapper, start>>
    /\ UNCHANGED StreamVars

RuleStep ==
    \/ \E r \in RuleSet : RConstruct(r)
    \/ \E st \in 1..MaxStart : RBind(st)
    \/ RNext

RuleSpec == RuleInit /\ [][RuleStep]_vars

-----------------------------------------------------------------------------
(* Properties of the OrderedStream on its own *)

RECURSIVE Concat(_)
Concat(ss) == IF ss = <<>> THEN <<>> ELSE Head(ss) \o Concat(Tail(ss))

RECURSIVE Insert(_, _)
Insert(s, v) ==
    IF s = <<>> THEN <<v>>
    ELSE IF PyLT(v, Head(s)) THEN <<v>> \o s
    ELSE <<Head(s)>> \o Insert(Tail(s), v)

\* sorted(s)
RECURSIVE Sorted(_)
Sorted(s) == IF s = <<>> THEN <<>> ELSE Insert(Sorted(Tail(s)), Head(s))

Count(s, v) == Cardinality({i \in 1..Len(s) : s[i] = v})

SameBag(s, u) ==
    /\ Len(s) = Len(u)
    /\ \A i \in 1..Len(s) : Count(s, s[i]) = Count(u, s[i])

\* the items of the add_source calls that satisfy P
RECURSIVE AddedItems(_, _)
AddedItems(adds, wanted) ==
    IF adds = <<>> THEN <<>>
    ELSE (IF Head(adds).late \in wanted THEN Head(adds).items ELSE <<>>)
         \o AddedItems(Tail(adds), wanted)

\* this step is an add_source call whose first value is below the last
\* emitted value
LateAddStep ==
    /\ Len(hist'.adds) = Len(hist.adds) + 1
    /\ hist'.adds[Len(hist'.adds)].late

\* C2: an OrderedStream over pre-sorted finite sequences, drained with no
\* add_source call, has emitted exactly the sorted concatenation of the
\* sequences
C2_SortedConcat ==
    (pc = "done" /\ hist.adds = <<>>) => emitted = Sorted(Concat(sources))

C2_Witness ==
    /\ pc = "done" /\ hist.adds = <<>>
    /\ Len(sources) = 2
    /\ sources[1] = << <<1>>, <<3>> >>
    /\ sources[2] = << <<2>>, <<3>> >>
    /\ emitted = << <<1>>, <<2>>, <<3>>, <<3>> >>

\* C3: in reject-late mode an add_source whose first value is below the
\* last emitted value leaves the slot table and the free pool unchanged,
\* and a full drain emits exactly the values of the other sources, so none
\* of the discarded source
C3_RejectLate ==
    /\ [][(LateAddStep /\ ~allow_late) => (streams' = streams /\ holes' = holes)]_vars
    /\ []((pc = "done" /\ ~allow_late) =>
            SameBag(emitted, Concat(sources) \o AddedItems(hist.adds, {FALSE})))

C3_Witness ==
    /\ pc = "done" /\ ~allow_late
    /\ \E i \in 1..Len(hist.adds) :
          /\ hist.adds[i].late
          /\ Len(hist.adds[i].items) = 2
          /\ ~PyLT(hist.adds[i].items[2], emitted[hist.adds[i].pos])
          /\ Len(emitted) > hist.adds[i].pos

\* C4: in allow-late mode an add_source whose first value is below the
\* last emitted value gets a slot holding that value, the value is emitted
\* later on, and a full drain emits every value of every source
C4_AllowLate ==
    /\ [][(LateAddStep /\ allow_late) =>
            /\ Len(streams') = Len(streams) + 1
            /\ streams'[Len(streams')].buf = Head(hist'.adds[Len(hist'.adds)].items)
            /\ streams'[Len(streams')].idx \notin Indices(streams)]_vars
    /\ \A i \in 1..MaxAdds :
          (allow_late /\ Len(hist.adds) >= i /\ hist.adds[i].late)
             ~> (/\ Len(hist.adds) >= i
                 /\ hist.adds[i].late
                 /\ \E j \in (hist.adds[i].pos + 1)..Len(emitted) :
                       /\ emitted[j] = Head(hist.adds[i].items)
                       /\ PyLT(emitted[j], emitted[hist.adds[i].pos]))
    /\ []((pc = "done" /\ allow_late) =>
            SameBag(emitted, Concat(sources) \o AddedItems(hist.adds, {TRUE, FALSE})))
    /\ <>(pc = "done")

C4_Witness ==
    /\ pc = "done" /\ allow_late
    /\ \E i \in 1..Len(hist.adds) :
          /\ hist.adds[i].late
          /\ \E j \in (hist.adds[i].pos + 1)..Len(emitted) :
                emitted[j] = Head(hist.adds[i].items)
    /\ ~IsSorted(emitted)

-----------------------------------------------------------------------------
(* Properties of Ledger.simulate *)

DatesSorted(es) == \A i \in 1..(Len(es) - 1) : ledger_key(es[i]) <= ledger_key(es[i + 1])

\* this step hands an entry to Ledger.process
ProcessStep == pc = "loop" /\ pc' = "yielded"

\* this step is an actor's add_source call
InjectStep == Len(hist'.inj) = Len(hist.inj) + 1

LastInj(h) == h.inj[Len(h.inj)]

\* C1: in reject-late mode the entries handed to Ledger.process in one run
\* have non-decreasing dates, whatever the actors inject
C1_Monotone ==
    /\ [][(ProcessStep /\ t # NoDate) => ledger_key(entry') >= t]_vars
    /\ [](DatesSorted(emitted))

C1_Witness ==
    /\ pc = "done"
    /\ Len(hist.inj) >= 1
    /\ hist.inj[1].first # <<>>
    /\ ledger_key(hist.inj[1].first) < ledger_key(hist.inj[1].at)
    /\ Len(emitted) >= 3
    /\ ledger_key(emitted[Len(emitted)]) > ledger_key(hist.inj[1].at)

Scenario ==
    /\ sources = <<[rule |-> PayRule, txn |-> PayTxn]>>
    /\ actors = <<"transfer">>
    /\ alerters = <<>>
    /\ hist.initial = [a \in Accts |-> 0]
    /\ start = MkDate(2024, 1, 1)
    /\ end = MkDate(2024, 2, 16)

Pay(d) == <<d>> \o PayTxn
Xfer(d) == <<d>> \o XferTxn

\* C5 as stated: four paychecks, four transfers, checking 3600, savings 400
C5_AsStated ==
    (Scenario /\ pc = "done") =>
        /\ emitted = <<Pay(MkDate(2024, 1, 5)), Xfer(MkDate(2024, 1, 8)),
                       Pay(MkDate(2024, 1, 19)), Xfer(MkDate(2024, 1, 22)),
                       Pay(MkDate(2024, 2, 2)), Xfer(MkDate(2024, 2, 5)),
                       Pay(MkDate(2024, 2, 16)), Xfer(MkDate(2024, 2, 19))>>
        /\ accounts[Checking] = 3600
        /\ accounts[Savings] = 400

\* C5: the scenario run never fails and ends having yielded the four
\* paychecks and the three transfers dated up to end (the transfer of the
\* 02-16 paycheck falls on 02-19, after end), with checking 3700 and
\* savings 300
C5_Scenario ==
    Scenario =>
        /\ pc \notin {"error", "hang", "capped"}
        /\ pc = "done" =>
              /\ emitted = <<Pay(MkDate(2024, 1, 5)), Xfer(MkDate(2024, 1, 8)),
                             Pay(MkDate(2024, 1, 19)), Xfer(MkDate(2024, 1, 22)),
                             Pay(MkDate(2024, 2, 2)), Xfer(MkDate(2024, 2, 5)),
                             Pay(MkDate(2024, 2, 16))>>
              /\ accounts[Checking] = 3700
              /\ accounts[Savings] = 300
              /\ streams # <<>>
              /\ os_min = Xfer(MkDate(2024, 2, 19))

C5_Witness == Scenario /\ pc = "done" /\ Len(emitted) = 7

\* C6: a source injected by an actor whose first date is at or after the
\* date of the entry being processed gets a slot
C6_AdmittedAtOrAfter ==
    [][(InjectStep
          /\ LastInj(hist').first # <<>>
          /\ ledger_key(LastInj(hist').first) >= ledger_key(LastInj(hist').at))
        => /\ Len(streams') = Len(streams) + 1
           /\ streams'[Len(streams')].buf = LastInj(hist').first]_vars

RECURSIVE SumOver(_, _)
SumOver(f, S) ==
    IF S = {} THEN 0
    ELSE LET a == CHOOSE x \in S : TRUE IN f[a] + SumOver(f, S \ {a})

BufferItems(b) == IF "data" \in DOMAIN b THEN b["data"] ELSE b["_data"]

\* C8: the alert buffer holds every alert the alerters returned, in order,
\* and a returned alert does not end the run
C8_AlertsBuffered ==
    /\ BufferItems(alerts) = hist.returned
    /\ hist.returned # <<>> => pc # "error"

\* C9: an entry pulled from the merge stream is processed and yielded when
\* its date is at most end; the first one past end ends the run untouched,
\* so nothing dated after end is yielded or booked and nothing moves after
\* the run has ended
C9_EndBound ==
    /\ [][(pc = "loop" /\ streams # <<>>) =>
            IF ledger_key(os_min') <= end
            THEN \/ pc' = "capped"
                 \/ /\ pc' = "yielded"
                    /\ entry' = os_min'
                    /\ t' = ledger_key(os_min')
                    /\ accounts' # accounts \/ Amount(os_min') = 0
                    /\ Len(emitted) < MaxEntries => emitted' = Append(emitted, os_min')
            ELSE /\ pc' = "done"
                 /\ UNCHANGED <<accounts, alerts, emitted, streams, holes, t, entry, hist>>]_vars
    /\ [][pc = "done" => UNCHANGED vars]_vars
    /\ [](\A i \in 1..Len(emitted) : ledger_key(emitted[i]) <= end)
    /\ [](t <= end)

C9_Witness ==
    /\ pc = "done"
    /\ streams # <<>>
    /\ ledger_key(os_min) > end
    /\ Len(emitted) >= 2
    /\ t <= end

\* C10: with built-in rules, an end date and no actor, draining simulate()
\* comes to an end
C10_Terminates == <>(pc \in {"done", "error", "capped"})

-----------------------------------------------------------------------------
(* Properties of the recurrences *)

Bare(r) == r.wbegin = NoDate /\ r.wend = NoDate

\* the rule has been bound to start and asked for dates
Asked == pc \in {"bound", "stopped", "raised", "hung"}

\* month/day exists in every year
EveryYear(m, d) == m \in 1..12 /\ d >= 1 /\ d <= DaysInMonth(BaseYear + 1, m)

\* C11: a Yearly rule over a month/day that exists every year emits dates
\* that all fall on that month/day, the first one being the earliest on or
\* after start, each following one 365 or 366 days after the one before
C11_YearlySpacing ==
    (wrapper.kind = "yearly" /\ Bare(wrapper) /\ EveryYear(wrapper.a, wrapper.b) /\ Asked) =>
        /\ pc = "bound"
        /\ \A i \in 1..Len(dates) :
              MonthOf(dates[i]) = wrapper.a /\ DayOf(dates[i]) = wrapper.b
        /\ dates # <<>> => (dates[1] >= start /\ dates[1] - start < 366)
        /\ \A i \in 1..(Len(dates) - 1) : dates[i + 1] - dates[i] \in {365, 366}

\* the day of a Monthly or Yearly rule is no day of any month
BadDay(r) ==
    \/ r.kind = "monthly" /\ r.a \notin 1..31
    \/ r.kind = "yearly" /\ r.b \notin 1..31

\* C12: a Monthly or Yearly rule with an out-of-range day is never made:
\* the constructing call has failed, so the rule is never bound to a start
\* date and never asked for a date
C12_FailFast ==
    BadDay(wrapper) => (pc = "raised" /\ start = NoDate /\ it = NoGen /\ dates = <<>>)

\* the first date at or after x whose day-of-month is d (d in 1..31)
RECURSIVE NextWithDay(_, _)
NextWithDay(x, d) == IF DayOf(x) = d THEN x ELSE NextWithDay(x + 1, d)

\* C13: Monthly(d), d in 1..31, never fails or ends; its first date is the
\* first date at or after start with day-of-month d and each following
\* date is the first date after the previous one with day-of-month d, so
\* every month that has a day d gets its date and no other date is emitted
C13_MonthlySkip ==
    (wrapper.kind = "monthly" /\ Bare(wrapper) /\ wrapper.a \in 1..31 /\ Asked) =>
        /\ pc = "bound"
        /\ \A i \in 1..Len(dates) :
              /\ dates[i] = NextWithDay(IF i = 1 THEN start ELSE dates[i - 1] + 1, wrapper.a)
              /\ DayOf(dates[i]) = wrapper.a
              /\ DaysInMonth(YearOf(dates[i]), MonthOf(dates[i])) >= wrapper.a

C13_Witness ==
    /\ wrapper = Rule("monthly", 31, 0, NoDate, NoDate, <<>>)
    /\ start = MkDate(2024, 4, 10)
    /\ dates = <<MkDate(2024, 5, 31), MkDate(2024, 7, 31),
                 MkDate(2024, 8, 31), MkDate(2024, 10, 31)>>

MaxSkipped == 5

\* the dates of the first n next() calls on the rule's own generator g,
\* begin= and end= left aside, and how the last call ended
RECURSIVE Take(_, _)

TakeJoin(d, x) == [dates |-> <<d>> \o x.dates, st |-> x.st]

TakeRest(r, n) ==
    IF r.st = "ok" THEN The({TakeJoin(r.val, x) : x \in {Take(r.gen, n - 1)}})
    ELSE [dates |-> <<>>, st |-> r.st]

Take(g, n) ==
    IF n = 0 THEN [dates |-> <<>>, st |-> "ok"]
    ELSE The({TakeRest(r, n) : r \in {RuleNext(g)}})

\* s up to, and without, its first date after e
RECURSIVE CutAfter(_, _)
CutAfter(s, e) ==
    IF s = <<>> \/ Head(s) > e THEN <<>> ELSE <<Head(s)>> \o CutAfter(Tail(s), e)

\* s without its dates before b
RECURSIVE DropBefore(_, _)
DropBefore(s, b) ==
    IF s = <<>> THEN <<>>
    ELSE (IF Head(s) < b THEN <<>> ELSE <<Head(s)>>) \o DropBefore(Tail(s), b)

WasCut(s, e) == e # NoDate /\ \E i \in 1..Len(s) : s[i] > e

Window(s, b, e) ==
    DropBefore(IF e = NoDate THEN s ELSE CutAfter(s, e), IF b = NoDate THEN 0 ELSE b)

IsPrefix(s, u) == Len(s) <= Len(u) /\ \A i \in 1..Len(s) : s[i] = u[i]

\* the windowing claim, ref being the start of the unwindowed sequence
WindowOf(ref) ==
    /\ IsPrefix(dates, Window(ref.dates, wrapper.wbegin, wrapper.wend))
    /\ pc = "stopped" =>
          /\ dates = Window(ref.dates, wrapper.wbegin, wrapper.wend)
          /\ WasCut(ref.dates, wrapper.wend) \/ ref.st = "stop"
    /\ pc = "raised" => (ref.st = "raise" /\ ~WasCut(ref.dates, wrapper.wend))
    /\ pc = "hung" => ~WasCut(ref.dates, wrapper.wend)

\* C15: the dates a windowed rule has returned are the start of the
\* unwindowed sequence for the same start, cut just before its first date
\* after end, without its dates before begin; the windowed rule ends only
\* where the cut is or where the unwindowed sequence ends, and fails only
\* where the unwindowed sequence fails
C15_Window ==
    (pc \in {"bound", "stopped", "hung"} \/ (pc = "raised" /\ it # NoGen)) =>
        \A ref \in {Take([it EXCEPT !.wbegin = NoDate, !.wend = NoDate,
                                    !.fresh = TRUE, !.cur = NoDate,
                                    !.items = wrapper.items],
                         MaxDates + MaxSkipped)} : WindowOf(ref)

C15_Witness ==
    /\ wrapper = Rule("interval", 14, 5, 19, 33, <<>>)
    /\ start = 1
    /\ dates = <<19, 33>>
    /\ pc = "stopped"

\* what advancing initial by whole multiples of delta until >= start gives
FirstMultiple(initial, delta, st) ==
    initial + delta * (CHOOSE n \in 0..MaxStart :
                          /\ initial + delta * n >= st
                          /\ \A m \in 0..(n - 1) : initial + delta * m < st)

\* C16: Interval(delta, initial) with delta > 0 never fails or ends; its
\* first date is start when initial is absent, otherwise initial advanced
\* by the fewest whole multiples of delta that bring it to start or later;
\* each later date is delta after the one before
C16_Interval ==
    (wrapper.kind = "interval" /\ Bare(wrapper) /\ wrapper.a > 0 /\ Asked) =>
        /\ pc = "bound"
        /\ dates # <<>> =>
              dates[1] = (IF wrapper.b = NoDate THEN start
                          ELSE FirstMultiple(wrapper.b, wrapper.a, start))
        /\ \A i \in 1..(Len(dates) - 1) : dates[i + 1] = dates[i] + wrapper.a

C16_Witness ==
    /\ wrapper = Rule("interval", 14, 5, NoDate, NoDate, <<>>)
    /\ start = 20
    /\ dates = <<33, 47, 61, 75>>

\* C17: Once(d) bound to start > d returns no date, bound to start <= d it
\* returns d and nothing else, and the next() after that ends it
C17_Once ==
    /\ []((wrapper.kind = "once" /\ Bare(wrapper) /\ Asked) =>
            /\ pc \in {"bound", "stopped"}
            /\ start > wrapper.a => dates = <<>>
            /\ start <= wrapper.a => (dates = <<>> /\ pc = "bound") \/ dates = <<wrapper.a>>)
    /\ [][(wrapper.kind = "once" /\ Bare(wrapper) /\ pc = "bound") =>
            IF dates = <<>> /\ start <= wrapper.a
            THEN pc' = "bound" /\ dates' = <<wrapper.a>>
            ELSE pc' = "stopped" /\ dates' = dates]_vars

C17_Witness ==
    /\ wrapper = Once(8)
    /\ start = 8
    /\ dates = <<8>>
    /\ pc = "stopped"

-----------------------------------------------------------------------------
(* Properties of Ledger.process *)

\* the double-entry rule
Book(accts, e) ==
    [a \in Accts |-> accts[a] + (IF a = Debit(e) THEN Amount(e) ELSE 0)
                              - (IF a = Credit(e) THEN Amount(e) ELSE 0)]

RECURSIVE Booked(_, _)
Booked(accts, es) == IF es = <<>> THEN accts ELSE Booked(Book(accts, Head(es)), Tail(es))

\* every entry handed to the caller is in emitted
AllKept == Len(emitted) < MaxEntries

\* this step is a failure inside the alerter / actor part of process()
FailStep == pc \in {"alerters", "actors"} /\ pc' = "error"

\* C14: a failure while the alerters and actors of an entry run ends the
\* run there: the caller has received exactly the entries yielded so far,
\* the entry being processed last, the balances are the initial ones with
\* exactly those entries booked, and nothing happens afterwards; a raising
\* alerter or actor always is such a failure
C14_FailStop ==
    /\ [][FailStep =>
            /\ emitted' = emitted /\ accounts' = accounts
            /\ streams' = streams /\ holes' = holes /\ entry' = entry
            /\ AllKept => (emitted[Len(emitted)] = entry
                           /\ accounts = Booked(hist.initial, emitted))]_vars
    /\ [][(hist'.raised /\ ~hist.raised) => FailStep]_vars
    /\ [](hist.raised => pc = "error")
    /\ []((pc = "error" /\ AllKept) => accounts = Booked(hist.initial, emitted))
    /\ [][pc = "error" => UNCHANGED vars]_vars

C14_Witness ==
    /\ hist.raised
    /\ pc = "error"
    /\ Len(emitted) = 3
    /\ accounts # hist.initial
    /\ accounts = Booked(hist.initial, emitted)
    /\ Len(streams) >= 2
    /\ hist.ran[Len(hist.ran)].who = "actor"

\* the calls process() makes for one entry, in order
FullRun ==
    [i \in 1..(Len(alerters) + Len(actors)) |->
        IF i <= Len(alerters) THEN <<"alerter", i>> ELSE <<"actor", i - Len(alerters)>>]

RanOrder == [i \in 1..Len(hist.ran) |-> <<hist.ran[i].who, hist.ran[i].i>>]

\* C19: for each entry the balances are updated in the step that hands the
\* entry to the caller; then the alerters run, all of them, then the
\* actors, all of them in registration order, each seeing the updated
\* balances; an injected recurrence is bound to the date of the entry; and
\* the merge stream is advanced, and the next entry pulled, only after that
C19_ProcessOrder ==
    /\ [][ProcessStep =>
            /\ accounts' = Book(accounts, entry')
            /\ t' = ledger_key(entry')
            /\ hist'.ran = <<>>
            /\ AllKept => emitted' = Append(emitted, entry')]_vars
    /\ [](pc \in {"yielded", "alerters", "actors", "advance"} =>
            /\ IsPrefix(RanOrder, FullRun)
            /\ \A i \in 1..Len(hist.ran) : hist.ran[i].seen = accounts
            /\ t = ledger_key(entry)
            /\ pc = "yielded" => hist.ran = <<>>
            /\ pc = "advance" => RanOrder = FullRun)
    /\ [][(pc \in {"yielded", "alerters", "actors"}) =>
            /\ accounts' = accounts /\ entry' = entry /\ emitted' = emitted
            /\ has_min' = has_min /\ os_min' = os_min /\ sel' = sel]_vars
    /\ [][InjectStep => LastInj(hist').bound \in {NoDate, ledger_key(entry)}]_vars
    /\ [][pc' = "loop" => pc \in {"new", "advance"}]_vars

C19_Witness ==
    /\ pc = "advance"
    /\ alerters = <<"any", "any">>
    /\ actors = <<"any", "transfer">>
    /\ RanOrder = <<<<"alerter", 1>>, <<"alerter", 2>>, <<"actor", 1>>, <<"actor", 2>>>>
    /\ Len(emitted) >= 2
    /\ Len(hist.inj) = 1
    /\ hist.inj[1].bound = ledger_key(hist.inj[1].at)
    /\ hist.inj[1].bound > start

-----------------------------------------------------------------------------
(* Properties of the slot table of the OrderedStream *)

\* this step is a call of add_source
AddStep == Len(hist'.adds) = Len(hist.adds) + 1

LastAdd(h) == h.adds[Len(h.adds)]

\* the source of the call passes the late test and is not empty
Admitted(a) == a.items # <<>> /\ (~a.late \/ allow_late)

\* every slot of old is in new as it was
Kept(old, new) == \A i \in 1..Len(old) : \E j \in 1..Len(new) : new[j] = old[i]

RECURSIVE IsSubseq(_, _)
IsSubseq(s, u) ==
    IF s = <<>> THEN TRUE
    ELSE IF u = <<>> THEN FALSE
    ELSE IF Head(s) = Head(u) THEN IsSubseq(Tail(s), Tail(u))
    ELSE IsSubseq(s, Tail(u))

\* the i-th add_source call was made while generate() was suspended at its
\* yield, and its source was admitted
AdmittedAtYield(i) ==
    Len(hist.adds) >= i /\ Admitted(hist.adds[i]) /\ hist.adds[i].pos >= 1

\* every value of the source of the i-th call has been emitted since
AllOut(i) ==
    IsSubseq(hist.adds[i].items, SubSeq(emitted, hist.adds[i].pos + 1, Len(emitted)))

\* C18: a source admitted while generate() is suspended at its yield gets
\* a slot other than the emitting one and leaves every slot as it was; the
\* advance that follows touches the emitting slot only; generate() ends
\* only on an empty table, so not before every value of the admitted
\* source has been emitted, and under continued consumption they all are
C18_InjectionKept ==
    /\ [][(AddStep /\ pc = "yielded" /\ Admitted(LastAdd(hist'))) =>
            /\ LastAdd(hist').slot \notin {-1, sel}
            /\ Len(streams') = Len(streams) + 1
            /\ Kept(streams, streams')]_vars
    /\ [][(pc = "yielded" /\ pc' = "loop") =>
            \A i \in 1..Len(streams) :
               streams[i].idx # sel => \E j \in 1..Len(streams') : streams'[j] = streams[i]]_vars
    /\ [][pc' = "done" => streams = <<>>]_vars
    /\ [](pc = "done" => \A i \in 1..Len(hist.adds) : AdmittedAtYield(i) => AllOut(i))
    /\ \A i \in 1..MaxAdds :
          AdmittedAtYield(i) ~> (pc = "done" /\ AdmittedAtYield(i) /\ AllOut(i))

C18_Witness ==
    /\ pc = "done"
    /\ sources = << << <<2>> >> >>
    /\ Len(hist.adds) = 1
    /\ hist.adds[1].pos = 1
    /\ hist.adds[1].items = << <<2>>, <<3>> >>
    /\ emitted = << <<2>>, <<2>>, <<3>> >>

\* C20: the live slot ids and the free pool are disjoint and together are
\* 0..n-1, n being the number of ids ever used, which never exceeds the
\* largest number of slots live at once; an admitted source gets an id of
\* the free pool when there is one and otherwise the smallest id never
\* used, and leaves every live slot as it was
C20_Slots ==
    /\ [](/\ Indices(streams) \cap holes = {}
          /\ Indices(streams) \cup holes = 0..(Cardinality(hist.used) - 1)
          /\ Cardinality(Indices(streams)) = Len(streams)
          /\ Cardinality(hist.used) <= hist.maxlive)
    /\ [][(AddStep /\ Admitted(LastAdd(hist'))) =>
            /\ LastAdd(hist').slot \notin Indices(streams) \cup {-1}
            /\ Indices(streams') = Indices(streams) \cup {LastAdd(hist').slot}
            /\ IF holes # {}
               THEN /\ LastAdd(hist').slot \in holes
                    /\ holes' = holes \ {LastAdd(hist').slot}
               ELSE /\ LastAdd(hist').slot \notin hist.used
                    /\ \A j \in 0..(LastAdd(hist').slot - 1) : j \in hist.used
                    /\ holes' = holes
            /\ Kept(streams, streams')]_vars

C20_Witness ==
    /\ pc = "done"
    /\ Len(sources) = 2 /\ sources[1] # <<>> /\ sources[2] # <<>>
    /\ Len(hist.adds) = 1
    /\ hist.adds[1].slot = 0
    /\ hist.adds[1].pos = 2
    /\ hist.used = {0, 1}
    /\ hist.maxlive = 2

\* the ids of the slots whose buffered value no slot is below
MinSlots(strs) ==
    {strs[i].idx : i \in {n \in 1..Len(strs) :
                            \A j \in 1..Len(strs) : ~KeyLT(strs[j].buf, strs[n].buf)}}

\* C21: generate() takes the value of the smallest slot id among the slots
\* that hold the minimum, also when ids have been freed and reused
C21_TieBySlotId ==
    [][(pc \in {"ready", "loop"} /\ pc' = "yielded") =>
          (sel' \in MinSlots(streams) /\ \A i \in MinSlots(streams) : sel' <= i)]_vars

====
